---- MODULE Spec2Model ----
(***************************************************************************)
(* Job aggregation pipeline of JobOctubus: the source registry, the three  *)
(* source adapters, the aggregator JobSearchService.search_jobs with its   *)
(* gather join, the filter / sort / cap stage, the jobs and job_searches   *)
(* tables, and the POST /search endpoint that calls the service.           *)
(*                                                                         *)
(* Representation.  A Python str is a sequence of one-character strings,   *)
(* so that f-string concatenation and comparison are computed.  An         *)
(* Optional value is a sequence of length at most one: None is <<>> and a  *)
(* present value v is <<v>>.                                               *)
(***************************************************************************)
EXTENDS Integers, Sequences, FiniteSets, TLC

\* ------------------------------------------------------------------ bounds
\* longest payload (number of items) one source answers with
MaxItems == 2
\* number of searches one behaviour runs against the same storage
MaxSearches == 2
\* longest list of postings handed to _filter_jobs or _sort_jobs on its own
MaxList == 3
\* longest .env text, in chunks (newlines and KEY=value runs)
MaxChunks == 3
\* scoring calls for other CVs before an application is analysed
MaxScorings == 2
\* API requests in one run
MaxCalls == 3

\* ----------------------------------------------------------------- helpers
None == << >>
Some(v) == << v >>
IsNone(o) == Len(o) = 0
Val(o) == o[1]

Range(s) == { s[i] : i \in 1..Len(s) }

SeqsUpTo(S, n) == UNION { [1..k -> S] : k \in 0..n }

\* Python list slice s[:n] for n >= 0 and for n < 0 (all but the last -n)
Slice(s, n) ==
    IF n >= 0
    THEN SubSeq(s, 1, IF n < Len(s) THEN n ELSE Len(s))
    ELSE SubSeq(s, 1, IF Len(s) + n > 0 THEN Len(s) + n ELSE 0)

\* str(n) for a non-negative integer, as the f-strings format it
Digits == << "0", "1", "2", "3", "4", "5", "6", "7", "8", "9" >>
RECURSIVE IntToStr(_)
IntToStr(n) ==
    IF n < 10 THEN << Digits[n + 1] >>
    ELSE IntToStr(n \div 10) \o << Digits[(n % 10) + 1] >>

\* ---------------------------------------------------------- configuration
NoKeySources == { "remoteok", "arbeitsagentur", "thelocal" }
KeySources == { "linkedin", "indeed" }
AllSources == NoKeySources \cup KeySources

\* the sentinel values the registry compares the keys with
LinkedinPlaceholder == << "L", "?" >>
IndeedPlaceholder == << "I", "?" >>
RealKey == << "k" >>
EmptyStr == << >>
ApiKeys == { EmptyStr, LinkedinPlaceholder, IndeedPlaceholder, RealKey }

\* attributes the Settings class declares that the registry reads
DeclaredFields == { "linkedin_api_key", "indeed_api_key" }
\* attributes the readers of settings expect on top of them
EnableFlags == { "enable_remoteok", "enable_arbeitsagentur", "enable_thelocal",
                 "enable_linkedin", "enable_indeed" }

\* The settings object as config.py builds it: no enable_* attribute.
SettingsAsDeclared ==
    { [ fields |-> DeclaredFields,
        enable |-> [ s \in AllSources |-> FALSE ],
        linkedin_api_key |-> lk, indeed_api_key |-> ik ] :
      lk \in ApiKeys, ik \in ApiKeys }

\* The settings object the readers (job_search.py, api/settings.py,
\* api/status.py, test_config.py) expect: the five flags are attributes.
SettingsWithFlags ==
    { [ fields |-> DeclaredFields \cup EnableFlags,
        enable |-> en,
        linkedin_api_key |-> lk, indeed_api_key |-> ik ] :
      en \in [ AllSources -> BOOLEAN ], lk \in ApiKeys, ik \in ApiKeys }

Settings == SettingsAsDeclared \cup SettingsWithFlags

\* getattr on the settings object: an attribute that is not a field raises
HasAttr(st, name) == name \in st.fields

\* truthiness of a str
Truthy(str) == Len(str) > 0

\* ---------------------------------------------------------- source registry
\* Result of a call: either a returned value or a raised exception.
Returned(v) == [ raised |-> FALSE, value |-> v, exc |-> "" ]
Raised(e) == [ raised |-> TRUE, value |-> << >>, exc |-> e ]

\* the `if` of lines 87-89 and 93-95: flag and key and key != placeholder
KeyUsable(st, flag, key, placeholder) ==
    st.enable[flag] /\ Truthy(key) /\ key # placeholder

available_sources(st) ==
    (IF st.enable["remoteok"] THEN << "remoteok" >> ELSE << >>)
    \o (IF st.enable["arbeitsagentur"] THEN << "arbeitsagentur" >> ELSE << >>)
    \o (IF st.enable["thelocal"] THEN << "thelocal" >> ELSE << >>)
    \o (IF KeyUsable(st, "linkedin", st.linkedin_api_key, LinkedinPlaceholder)
        THEN << "linkedin" >> ELSE << >>)
    \o (IF KeyUsable(st, "indeed", st.indeed_api_key, IndeedPlaceholder)
        THEN << "indeed" >> ELSE << >>)

\* JobSearchService._get_available_sources: the first attribute read is
\* settings.enable_remoteok (line 77); it raises AttributeError when the
\* settings object has no such attribute.
_get_available_sources(st) ==
    IF ~ HasAttr(st, "enable_remoteok") THEN Raised("AttributeError")
    ELSE Returned(available_sources(st))

\* ------------------------------------------------------------------ strings
\* str.lower() on the characters the model uses
LowerChar(c) ==
    CASE c = "F" -> "f" [] c = "H" -> "h" [] c = "M" -> "m" [] c = "R" -> "r"
      [] OTHER -> c
Lower(str) == [ i \in 1..Len(str) |-> LowerChar(str[i]) ]

\* a in b  (Python substring test)
IsSubstring(a, b) ==
    \E i \in 0..(Len(b) - Len(a)) : SubSeq(b, i + 1, i + Len(a)) = a

Str_ba == << "b", "a", "_" >>
Str_remote == << "r", "e", "m", "o", "t", "e", "_" >>
Remote == << "R", "e", "m" >>
Hamburg == << "H", "a", "m" >>
FullTime == << "F", "t" >>
MidLevel == << "M", "l" >>

\* ------------------------------------------------------------ search request
\* JobSearchRequest.  query is the text already split into words (an empty
\* sequence is the empty or whitespace-only query).
Queries == { << >>, << "CFD" >> }
LowerWord(w) == IF w = "CFD" THEN "cfd" ELSE w
RequestLocations == { None, Some(<< "h", "a", "m" >>) }
MaxResultsValues == { -1, 0, 1, 2 }

JobSearchRequest ==
    [ query : Queries,
      location : RequestLocations,
      remote_only : { FALSE },
      experience_level : { None },
      job_type : { None },
      max_results : MaxResultsValues ]

\* ----------------------------------------------------------- source payloads
\* One element of the RemoteOK payload: the keys the adapter reads.  text is
\* the lower-cased set of words of position, company, description and tags.
RemoteItems ==
    { [ id |-> Some(0), position |-> TRUE, text |-> { "cfd" },
        location |-> None, epoch |-> Some(1) ],
      [ id |-> None, position |-> TRUE, text |-> { "cfd" },
        location |-> Some(Hamburg), epoch |-> None ],
      [ id |-> Some(1), position |-> TRUE, text |-> { "java" },
        location |-> Some(Hamburg), epoch |-> Some(2) ],
      [ id |-> None, position |-> FALSE, text |-> { },
        location |-> None, epoch |-> None ] }

\* One element of 'stellenangebote' in the Arbeitsagentur payload.
BaItems ==
    { [ hashId |-> Some(<< "0" >>), ort |-> Some(Hamburg) ],
      [ hashId |-> None, ort |-> None ] }

\* What the network call of an adapter ends in: a decoded payload, or a
\* failure (connection error, timeout, HTTP error status, undecodable body).
Fetched(items) == [ ok |-> TRUE, data |-> items ]
FetchFailed == [ ok |-> FALSE, data |-> << >> ]
RemoteResponses == { FetchFailed } \cup { Fetched(d) : d \in SeqsUpTo(RemoteItems, MaxItems) }
BaResponses == { FetchFailed } \cup { Fetched(d) : d \in SeqsUpTo(BaItems, MaxItems) }

\* wall clock of datetime.now(): later than every epoch a payload carries
Now == 3

\* ------------------------------------------------------------------ schemas
\* Fields of schemas.Job (JobBase + Job) that have no default value.
JobSchemaRequired ==
    { "title", "company", "location", "description", "requirements",
      "job_type", "source", "url", "skills_required", "experience_level",
      "id", "external_id", "posted_date", "deadline", "match_score",
      "created_at" }

\* Keyword arguments of the JobSchema(...) call in _search_arbeitsagentur.
BaSchemaArgs ==
    { "external_id", "title", "company", "location", "description",
      "job_type", "remote_option", "posted_date", "source", "url",
      "skills_required", "experience_level" }

\* pydantic model construction: raises ValidationError if a required field
\* is not supplied.
SchemaValidates(args) == JobSchemaRequired \subseteq args

\* JobSchema.from_orm(row): copies the columns of a jobs row
from_orm(row) == row

\* ------------------------------------------------------------------ adapters
\* Outcome of an adapter coroutine: the value it resolves to, the jobs table
\* it leaves, and the external ids it computed on the way.
AdapterOut(res, db, ids, rows) ==
    [ result |-> res, db |-> db, computed |-> ids, inserted |-> rows ]

\* the Arbeitsagentur id built with the prefix of the RemoteOK adapter
ba_external_id_remote_prefix(job_data) ==
    Str_remote \o (IF IsNone(job_data.hashId) THEN EmptyStr ELSE Val(job_data.hashId))

\* line 129: f"ba_{job_data.get('hashId', '')}"
ba_external_id(job_data) ==
    Str_ba \o (IF IsNone(job_data.hashId) THEN EmptyStr ELSE Val(job_data.hashId))

\* JobSearchService._search_arbeitsagentur.  The loop body builds a JobSchema
\* from twelve keyword arguments; the constructor raises on the first element
\* because required fields are missing, and the handler of line 147 turns the
\* exception into the empty list.  The adapter never writes to storage.
_search_arbeitsagentur(search_request, response, db) ==
    IF ~ response.ok THEN AdapterOut(Returned(<< >>), db, { }, << >>)
    ELSE IF Len(response.data) = 0 THEN AdapterOut(Returned(<< >>), db, { }, << >>)
    ELSE LET eid == ba_external_id(response.data[1])
             ids == { [ source |-> "arbeitsagentur", external_id |-> eid ] }
         IN  IF SchemaValidates(BaSchemaArgs)
             THEN AdapterOut(Returned(
                    [ i \in 1..Len(response.data) |->
                        [ id |-> 0,
                          external_id |-> ba_external_id(response.data[i]),
                          source |-> "arbeitsagentur",
                          location |-> (IF IsNone(response.data[i].ort) THEN EmptyStr
                                        ELSE Val(response.data[i].ort)),
                          remote_option |-> FALSE,
                          job_type |-> FullTime,
                          experience_level |-> MidLevel,
                          match_score |-> None,
                          posted_date |-> Now ] ]), db,
                    { [ source |-> "arbeitsagentur",
                        external_id |-> ba_external_id(response.data[i]) ] :
                      i \in 1..Len(response.data) }, << >>)
             ELSE AdapterOut(Returned(<< >>), db, ids, << >>)

\* line 205: f"remote_{job_data.get('id', count)}"
remote_external_id(job_data, count) ==
    Str_remote \o IntToStr(IF IsNone(job_data.id) THEN count ELSE Val(job_data.id))

\* the lookup filtering on a column that never equals the external id
Existing_wrong_column(db, external_id) == None

\* db.query(JobModel).filter(JobModel.external_id == external_id).first()
Existing(db, external_id) ==
    IF \E i \in 1..Len(db) : db[i].external_id = external_id
    THEN Some(db[CHOOSE i \in 1..Len(db) :
                    /\ db[i].external_id = external_id
                    /\ \A j \in 1..(i - 1) : db[j].external_id # external_id])
    ELSE None

\* primary key the database assigns to a new row
NextId(db) ==
    IF Len(db) = 0 THEN 1
    ELSE 1 + (CHOOSE m \in { db[i].id : i \in 1..Len(db) } :
                \A i \in 1..Len(db) : db[i].id <= m)

\* JobModel(...) of lines 227-242, with the id the commit assigns
NewJobRow(db, job_data, external_id) ==
    [ id |-> NextId(db),
      external_id |-> external_id,
      source |-> "remoteok",
      location |-> (IF IsNone(job_data.location) THEN Remote ELSE Val(job_data.location)),
      remote_option |-> TRUE,
      job_type |-> FullTime,
      experience_level |-> MidLevel,
      match_score |-> None,
      posted_date |-> (IF IsNone(job_data.epoch) \/ Val(job_data.epoch) = 0
                       THEN Now ELSE Val(job_data.epoch)) ]

\* db.add(db_job); db.commit(): the row is stored unless the database is
\* failing or the unique index on external_id rejects it
Commit(db, db_job, db_ok) ==
    IF ~ db_ok THEN Raised("OperationalError")
    ELSE IF \E i \in 1..Len(db) : db[i].external_id = db_job.external_id
    THEN Raised("IntegrityError")
    ELSE Returned(Append(db, db_job))

\* line 196: any(keyword in job_text for keyword in search_keywords)
MatchesSearch(job_data, search_keywords) ==
    \E k \in Range(search_keywords) : k \in job_data.text

\* The for loop of lines 185-257 from element i on.  db_ok tells whether the
\* commit of line 245 succeeds; a failed commit raises inside the inner try,
\* is logged, and the loop continues with the next element.
RECURSIVE RemoteLoop(_, _, _, _, _, _, _, _)
RemoteLoop(search_request, data, i, count, jobs, db, db_ok, acc) ==
    IF i > Len(data) THEN AdapterOut(Returned(jobs), db, acc.ids, acc.rows)
    ELSE
      LET job_data == data[i]
          search_keywords == [ k \in 1..Len(search_request.query) |->
                                 LowerWord(search_request.query[k]) ]
      IN
      IF ~ job_data.position
      THEN RemoteLoop(search_request, data, i + 1, count, jobs, db, db_ok, acc)
      ELSE IF Len(search_keywords) > 0 /\ ~ MatchesSearch(job_data, search_keywords)
      THEN RemoteLoop(search_request, data, i + 1, count, jobs, db, db_ok, acc)
      ELSE IF count >= search_request.max_results
      THEN AdapterOut(Returned(jobs), db, acc.ids, acc.rows)
      ELSE
        LET external_id == remote_external_id(job_data, count)
            existing == Existing(db, external_id)
            acc1 == [ acc EXCEPT !.ids = @ \cup
                        { [ source |-> "remoteok", external_id |-> external_id ] } ]
        IN
        IF ~ IsNone(existing)
        THEN RemoteLoop(search_request, data, i + 1, count + 1,
                        Append(jobs, from_orm(Val(existing))), db, db_ok, acc1)
        ELSE
          LET db_job == NewJobRow(db, job_data, external_id)
              committed == Commit(db, db_job, db_ok)
          IN  IF committed.raised
              THEN RemoteLoop(search_request, data, i + 1, count, jobs, db, db_ok, acc1)
              ELSE RemoteLoop(search_request, data, i + 1, count + 1,
                              Append(jobs, from_orm(db_job)), committed.value, db_ok,
                              [ acc1 EXCEPT !.rows = Append(@, db_job) ])

\* _search_remoteok without the handler of line 262: the error of
\* raise_for_status reaches the caller
_search_remoteok_no_handler(search_request, response, db, db_ok) ==
    IF Len(search_request.query) = 0 THEN AdapterOut(Returned(<< >>), db, { }, << >>)
    ELSE IF ~ response.ok THEN AdapterOut(Raised("HTTPStatusError"), db, { }, << >>)
    ELSE RemoteLoop(search_request, response.data, 1, 0, << >>, db, db_ok,
                    [ ids |-> { }, rows |-> << >> ])

\* JobSearchService._search_remoteok
_search_remoteok(search_request, response, db, db_ok) ==
    IF Len(search_request.query) = 0 THEN AdapterOut(Returned(<< >>), db, { }, << >>)
    ELSE IF ~ response.ok THEN AdapterOut(Returned(<< >>), db, { }, << >>)
    ELSE RemoteLoop(search_request, response.data, 1, 0, << >>, db, db_ok,
                    [ ids |-> { }, rows |-> << >> ])

\* JobSearchService._search_thelocal
_search_thelocal(search_request, db) == AdapterOut(Returned(<< >>), db, { }, << >>)

\* -------------------------------------------------------------- filter, sort
\* a filter whose location criterion is equality instead of containment
_filter_jobs_location_equal(jobs, search_request) ==
    LET by_remote(job) == job.remote_option
        by_level(job) == Lower(job.experience_level) = Lower(Val(search_request.experience_level))
        by_type(job) == Lower(job.job_type) = Lower(Val(search_request.job_type))
        by_location(job) == Lower(Val(search_request.location)) = Lower(job.location)
        f1 == IF search_request.remote_only THEN SelectSeq(jobs, by_remote) ELSE jobs
        f2 == IF ~ IsNone(search_request.experience_level)
                 /\ Truthy(Val(search_request.experience_level))
              THEN SelectSeq(f1, by_level) ELSE f1
        f3 == IF ~ IsNone(search_request.job_type) /\ Truthy(Val(search_request.job_type))
              THEN SelectSeq(f2, by_type) ELSE f2
        f4 == IF ~ IsNone(search_request.location) /\ Truthy(Val(search_request.location))
              THEN SelectSeq(f3, by_location) ELSE f3
    IN  f4

\* a filter that, when remote_only is set, keeps the remote postings after
\* the first one it is given
_filter_jobs_skip_first(jobs, search_request) ==
    IF search_request.remote_only /\ Len(jobs) > 0
    THEN SelectSeq(Tail(jobs), LAMBDA job : job.remote_option)
    ELSE jobs

\* JobSearchService._filter_jobs
_filter_jobs(jobs, search_request) ==
    LET by_remote(job) == job.remote_option
        by_level(job) == Lower(job.experience_level) = Lower(Val(search_request.experience_level))
        by_type(job) == Lower(job.job_type) = Lower(Val(search_request.job_type))
        by_location(job) == IsSubstring(Lower(Val(search_request.location)), Lower(job.location))
        f1 == IF search_request.remote_only THEN SelectSeq(jobs, by_remote) ELSE jobs
        f2 == IF ~ IsNone(search_request.experience_level)
                 /\ Truthy(Val(search_request.experience_level))
              THEN SelectSeq(f1, by_level) ELSE f1
        f3 == IF ~ IsNone(search_request.job_type) /\ Truthy(Val(search_request.job_type))
              THEN SelectSeq(f2, by_type) ELSE f2
        f4 == IF ~ IsNone(search_request.location) /\ Truthy(Val(search_request.location))
              THEN SelectSeq(f3, by_location) ELSE f3
    IN  f4

\* key=lambda x: (x.match_score or 0, x.posted_date)
SortKey(x) == << IF IsNone(x.match_score) THEN 0 ELSE Val(x.match_score), x.posted_date >>

\* tuple comparison a < b
KeyLess(a, b) == a[1] < b[1] \/ (a[1] = b[1] /\ a[2] < b[2])

\* sorted(..., reverse=True): descending, elements with equal keys keep
\* their input order.  x goes in front of the first element with a smaller key.
InsertSorted(sorted, x) ==
    LET smaller == { j \in 1..Len(sorted) : KeyLess(SortKey(sorted[j]), SortKey(x)) }
        pos == IF smaller = { } THEN Len(sorted) + 1
               ELSE CHOOSE j \in smaller : \A k \in smaller : j <= k
    IN  SubSeq(sorted, 1, pos - 1) \o << x >> \o SubSeq(sorted, pos, Len(sorted))

RECURSIVE SortFrom(_, _, _)
SortFrom(jobs, i, sorted) ==
    IF i > Len(jobs) THEN sorted
    ELSE SortFrom(jobs, i + 1, InsertSorted(sorted, jobs[i]))

Reverse(seq) == [ i \in 1..Len(seq) |-> seq[Len(seq) + 1 - i] ]

\* sorted(...) without reverse=True: ascending keys
_sort_jobs_ascending(jobs) == Reverse(SortFrom(jobs, 1, << >>))

\* an ascending stable sort whose output is reversed afterwards: descending
\* keys, elements with equal keys in reversed input order
_sort_jobs_reversed(jobs) == SortFrom(Reverse(jobs), 1, << >>)

\* JobSearchService._sort_jobs
_sort_jobs(jobs) == SortFrom(jobs, 1, << >>)

\* ------------------------------------------------------------ search history
\* truthiness of Optional[int]: None and 0 are falsy
TruthyId(user_id) == ~ IsNone(user_id) /\ Val(user_id) # 0

\* JobSearchService._store_search_history: add + commit of one JobSearch row
\* (of its columns the model keeps the owner and the result count)
_store_search_history(searches, search_request, results_count, user_id, db_ok) ==
    IF db_ok
    THEN Returned(Append(searches,
            [ results_count |-> results_count, user_id |-> user_id ]))
    ELSE Raised("SQLAlchemyError")

\* --------------------------------------------------------------- aggregator
\* gather without return_exceptions: the first exception of a task is raised
gather_fail_fast(tasks) ==
    IF \E i \in 1..Len(tasks) : tasks[i].result.raised
    THEN Raised("Exception")
    ELSE Returned([ i \in 1..Len(tasks) |-> tasks[i].result ])

\* asyncio.gather(*search_tasks, return_exceptions=True): one entry per task,
\* in dispatch order; a task that raised is represented by its exception.
gather(tasks) == Returned([ i \in 1..Len(tasks) |-> tasks[i].result ])

\* lines 46-50: jobs.extend(result) for every result that is a list
RECURSIVE Merge(_, _)
Merge(results, i) ==
    IF i > Len(results) THEN << >>
    ELSE (IF results[i].raised THEN << >> ELSE results[i].value) \o Merge(results, i + 1)

\* search_jobs without the handler of line 66: an exception of the history
\* write reaches the caller
Aggregate_no_handler(tasks, search_request, user_id, searches, db_ok) ==
    LET jobs == Merge(gather(tasks).value, 1)
        hist == IF TruthyId(user_id)
                THEN _store_search_history(searches, search_request, Len(jobs),
                                           Val(user_id), db_ok)
                ELSE Returned(searches)
    IN  IF hist.raised
        THEN [ merged |-> jobs, result |-> << >>, raised |-> TRUE,
               caught |-> FALSE, searches |-> searches ]
        ELSE [ merged |-> jobs,
               result |-> Slice(_sort_jobs(_filter_jobs(jobs, search_request)),
                                search_request.max_results),
               raised |-> FALSE, caught |-> FALSE, searches |-> hist.value ]

\* Lines 44-68 of search_jobs once every dispatched task has resolved.
\* Any exception raised on the way is caught at line 66 and [] is returned.
Aggregate(tasks, search_request, user_id, searches, db_ok) ==
    LET g == IF Len(tasks) > 0 THEN gather(tasks) ELSE Returned(<< >>)
        jobs == IF g.raised THEN << >> ELSE Merge(g.value, 1)
        hist == IF TruthyId(user_id)
                THEN _store_search_history(searches, search_request, Len(jobs),
                                           Val(user_id), db_ok)
                ELSE Returned(searches)
        filtered_jobs == _filter_jobs(jobs, search_request)
        sorted_jobs == _sort_jobs(filtered_jobs)
    IN  IF g.raised
        THEN [ merged |-> jobs, result |-> << >>, raised |-> FALSE,
               caught |-> TRUE, searches |-> searches ]
        ELSE IF hist.raised
        THEN [ merged |-> jobs, result |-> << >>, raised |-> FALSE,
               caught |-> TRUE, searches |-> searches ]
        ELSE [ merged |-> jobs,
               result |-> Slice(sorted_jobs, search_request.max_results),
               raised |-> FALSE, caught |-> FALSE, searches |-> hist.value ]

\* lines 35-41: the coroutines search_jobs creates, in this order
AdapterOrder == << "arbeitsagentur", "remoteok", "thelocal" >>
Dispatch(sources) ==
    SelectSeq(AdapterOrder, LAMBDA a : a \in Range(sources))

\* -------------------------------------------------------------- match score
\* Names bound in the namespace of module job_search by its imports
\* (lines 1-15): the ORM class is imported as JobModel, the schema as
\* JobSchema; no statement binds Job.
ModuleGlobals ==
    { "httpx", "List", "Optional", "Session", "datetime", "timedelta", "json",
      "BeautifulSoup", "re", "asyncio", "JobModel", "JobSearch",
      "JobSearchRequest", "JobSchema", "settings", "get_logger", "logger",
      "JobSearchService" }

\* the namespace the bodies of get_job_details and calculate_job_match_score
\* are written against: Job names the ORM class
GlobalsWithJob == ModuleGlobals \cup { "Job" }

\* exact fractions for the float arithmetic of the score
RECURSIVE GCD(_, _)
GCD(a, b) == IF b = 0 THEN a ELSE GCD(b, a % b)
Frac(n, d) == LET g == GCD(n, d) IN [ num |-> n \div g, den |-> d \div g ]
Zero == Frac(0, 1)

\* set(skill.lower() for skill in skills)
LowerSet(skills) == { LowerWord(skills[i]) : i \in 1..Len(skills) }

\* db.query(Job).filter(Job.id == job_id).first()
JobById(db, job_id) ==
    IF \E i \in 1..Len(db) : db[i].id = job_id
    THEN Some(CHOOSE i \in 1..Len(db) :
                /\ db[i].id = job_id
                /\ \A j \in 1..(i - 1) : db[j].id # job_id)
    ELSE None

\* lines 356-373: sum over the experience entries of overlap / |job_keywords|,
\* divided by the number of entries; as numerator and denominator
RECURSIVE OverlapSum(_, _, _)
OverlapSum(cv_experience, job_keywords, i) ==
    IF i > Len(cv_experience) THEN 0
    ELSE Cardinality(job_keywords \cap cv_experience[i])
         + OverlapSum(cv_experience, job_keywords, i + 1)

experience_score(cv_experience, job_keywords) ==
    IF Len(cv_experience) = 0 \/ job_keywords = { } THEN Zero
    ELSE Frac(OverlapSum(cv_experience, job_keywords, 1),
              Cardinality(job_keywords) * Len(cv_experience))

\* line 376: (skill_score * 0.6 + experience_score * 0.4) * 100
final_score(skill_score, exp_score) ==
    Frac(60 * skill_score.num * exp_score.den + 40 * exp_score.num * skill_score.den,
         skill_score.den * exp_score.den)

\* JobSearchService.calculate_job_match_score: the value returned (or the
\* exception raised) and the jobs table afterwards
calculate_job_match_score(db, job_id, cv_content, globals) ==
    IF "Job" \notin globals THEN [ result |-> Raised("NameError"), db |-> db ]
    ELSE
      LET found == JobById(db, job_id)
      IN
      IF IsNone(found) THEN [ result |-> Returned(Zero), db |-> db ]
      ELSE
        LET job == db[Val(found)]
            cv_skills == LowerSet(cv_content.skills)
            job_skills == LowerSet(job.skills_required)
        IN
        IF job_skills = { } THEN [ result |-> Returned(Zero), db |-> db ]
        ELSE
          LET matching_skills == cv_skills \cap job_skills
              skill_score == Frac(Cardinality(matching_skills), Cardinality(job_skills))
              exp_score == experience_score(cv_content.experience, job.keywords)
              score == final_score(skill_score, exp_score)
          IN  [ result |-> Returned(score),
                db |-> [ db EXCEPT ![Val(found)].match_score = Some(score) ] ]

\* ------------------------------------------------------------------- state
VARIABLES
    settings,       \* config.settings, resolved once at process start
    jobs,           \* table jobs (models.Job), in insertion order
    job_searches,   \* table job_searches (models.JobSearch), append only
    pc,             \* "idle", "gather" (awaiting the tasks) or "returned"
    call,           \* who called search_jobs and with which arguments
    tasks,          \* the dispatched adapter tasks, in dispatch order; fetched
                    \* tells whether the task got and decoded a payload
    out,            \* what search_jobs computed and handed to its caller
    trace,          \* per-search record of what the adapters saw and did
    nsearch,        \* searches started so far
    unit,           \* one call of a service method on given arguments
    cvs,            \* table cvs (models.CV), in insertion order
    applications,   \* table applications (models.Application)
    files,          \* paths of the files under data/cvs
    resp            \* the answer to the latest API request

vars == << settings, jobs, job_searches, pc, call, tasks, out, trace, nsearch, unit,
          cvs, applications, files, resp >>

\* configurations the search pipeline is explored under
SearchSettings ==
    { st \in Settings :
        /\ st.linkedin_api_key = RealKey
        /\ st.indeed_api_key = EmptyStr
        /\ ~ st.enable["indeed"]
        /\ st.enable["thelocal"] = st.enable["arbeitsagentur"]
        /\ st.enable["linkedin"] = st.enable["arbeitsagentur"]
        /\ (st.enable["arbeitsagentur"] => st.enable["remoteok"]) }

Users == { 1 }
UserIds == { None, Some(1) }

NoCall ==
    [ via |-> "none", current_user |-> None, user_id |-> None, db_ok |-> TRUE,
      sources |-> Raised(""),
      search_request |-> [ query |-> << >>, location |-> None, remote_only |-> FALSE,
                           experience_level |-> None, job_type |-> None,
                           max_results |-> 0 ] ]
NoOut == [ merged |-> << >>, result |-> << >>, raised |-> FALSE, caught |-> FALSE ]
\* no method call under way
NoUnit == [ op |-> "none" ]
NoResp == [ seq |-> 0, op |-> "none", user |-> 0, id |-> 0, status |-> 0 ]
NoTrace == [ jobs0 |-> << >>, searches0 |-> << >>, computed |-> { }, inserted |-> << >>,
             offered |-> << >> ]

Init ==
    /\ settings \in SearchSettings
    /\ jobs = << >>
    /\ job_searches = << >>
    /\ pc = "idle"
    /\ call = NoCall
    /\ tasks = << >>
    /\ out = NoOut
    /\ trace = NoTrace
    /\ nsearch = 0
    /\ unit = NoUnit
    /\ cvs = << >>
    /\ applications = << >>
    /\ files = { }
    /\ resp = NoResp

PendingTask(source) ==
    [ source |-> source, done |-> FALSE, fetched |-> FALSE,
      result |-> Returned(<< >>) ]

\* JobSearchService.search_jobs up to the await of line 45 (or to its return
\* when nothing is awaited): registry lookup and task creation.
\* db_ok: whether the commits of this request's session succeed.
StartSearch(search_request, user_id, via, current_user, db_ok) ==
    LET sources == _get_available_sources(settings)
        search_tasks == IF sources.raised THEN << >>
                        ELSE [ i \in 1..Len(Dispatch(sources.value)) |->
                                 PendingTask(Dispatch(sources.value)[i]) ]
        c == [ via |-> via, current_user |-> current_user, user_id |-> user_id,
               db_ok |-> db_ok, sources |-> sources,
               search_request |-> search_request ]
        t == [ NoTrace EXCEPT !.jobs0 = jobs, !.searches0 = job_searches ]
    IN
    /\ pc = "idle"
    /\ nsearch < MaxSearches
    /\ nsearch' = nsearch + 1
    /\ call' = c
    /\ trace' = t
    /\ UNCHANGED << settings, jobs, unit,
                 cvs, applications, files, resp >>
    /\ IF sources.raised
       THEN \* AttributeError caught at line 66
            /\ pc' = "returned"
            /\ tasks' = << >>
            /\ out' = [ NoOut EXCEPT !.caught = TRUE ]
            /\ UNCHANGED job_searches
       ELSE IF Len(search_tasks) = 0
       THEN LET a == Aggregate(<< >>, search_request, user_id, job_searches, db_ok)
            IN  /\ pc' = "returned"
                /\ tasks' = << >>
                /\ out' = [ merged |-> a.merged, result |-> a.result,
                            raised |-> a.raised, caught |-> a.caught ]
                /\ job_searches' = a.searches
       ELSE /\ pc' = "gather"
            /\ tasks' = search_tasks
            /\ out' = NoOut
            /\ UNCHANGED job_searches

\* JobSearchService.search_jobs called directly with an optional user_id
search_jobs ==
    \E r \in JobSearchRequest, uid \in UserIds, ok \in BOOLEAN :
        StartSearch(r, uid, "service", None, ok)

\* api/jobs.py POST /search: the authenticated caller is current_user; the
\* service is called with the request only.
api_search_jobs ==
    \E r \in JobSearchRequest, u \in Users, ok \in BOOLEAN :
        StartSearch(r, None, "api", Some(u), ok)

TaskIndex(source) == CHOOSE i \in 1..Len(tasks) : tasks[i].source = source
IsPending(source) ==
    /\ pc = "gather"
    /\ \E i \in 1..Len(tasks) : tasks[i].source = source /\ ~ tasks[i].done

\* the elements of a RemoteOK payload that pass the checks of lines 187-199
Offered(search_request, response) ==
    SelectSeq(response.data,
              LAMBDA job_data :
                 /\ job_data.position
                 /\ MatchesSearch(job_data, [ k \in 1..Len(search_request.query) |->
                                                LowerWord(search_request.query[k]) ]))

Resolve(source, response, o) ==
    /\ tasks' = [ tasks EXCEPT ![TaskIndex(source)] =
                    [ @ EXCEPT !.done = TRUE, !.fetched = response.ok,
                               !.result = o.result ] ]
    /\ jobs' = o.db
    /\ trace' = [ trace EXCEPT
                    !.computed = @ \cup o.computed,
                    !.inserted = @ \o o.inserted,
                    !.offered = IF source = "remoteok"
                                THEN Offered(call.search_request, response) ELSE @ ]
    /\ UNCHANGED << settings, job_searches, pc, call, out, nsearch, unit,
                 cvs, applications, files, resp >>

\* the Arbeitsagentur task runs to its result
search_arbeitsagentur ==
    /\ IsPending("arbeitsagentur")
    /\ \E response \in BaResponses :
         Resolve("arbeitsagentur", response,
                 _search_arbeitsagentur(call.search_request, response, jobs))

\* the RemoteOK task runs to its result
search_remoteok ==
    /\ IsPending("remoteok")
    /\ \E response \in RemoteResponses :
         Resolve("remoteok", response,
                 _search_remoteok(call.search_request, response, jobs, call.db_ok))

\* the TheLocal task runs to its result
search_thelocal ==
    /\ IsPending("thelocal")
    /\ Resolve("thelocal", FetchFailed, _search_thelocal(call.search_request, jobs))

\* An adapter coroutine suspended at its network call is ended by an exception
\* that `except Exception` does not catch (asyncio.CancelledError derives
\* from BaseException): gather records the exception as the result of that
\* task.  (_search_thelocal awaits nothing.)
task_raises ==
    \E i \in 1..Len(tasks) :
        /\ pc = "gather"
        /\ ~ tasks[i].done
        /\ tasks[i].source \in { "arbeitsagentur", "remoteok" }
        /\ tasks' = [ tasks EXCEPT ![i] =
                        [ @ EXCEPT !.done = TRUE, !.result = Raised("CancelledError") ] ]
        /\ UNCHANGED << settings, jobs, job_searches, pc, call, out, trace, nsearch, unit,
                 cvs, applications, files, resp >>

\* a wait that returns as soon as one task has resolved
gather_first_completed(ts) == \E i \in 1..Len(ts) : ts[i].done

\* when the await of asyncio.gather returns: every task has resolved
gather_returns(ts) == \A i \in 1..Len(ts) : ts[i].done

\* Every task has resolved: the await of line 45 returns and search_jobs runs
\* to its return statement.
join ==
    /\ pc = "gather"
    /\ gather_returns(tasks)
    /\ LET a == Aggregate(tasks, call.search_request, call.user_id, job_searches,
                          call.db_ok)
       IN  /\ out' = [ merged |-> a.merged, result |-> a.result,
                       raised |-> a.raised, caught |-> a.caught ]
           /\ job_searches' = a.searches
    /\ pc' = "returned"
    /\ UNCHANGED << settings, jobs, call, tasks, trace, nsearch, unit,
                 cvs, applications, files, resp >>

\* the caller takes the result; the service is ready for the next request
next_request ==
    /\ pc = "returned"
    /\ pc' = "idle"
    /\ call' = NoCall
    /\ tasks' = << >>
    /\ out' = NoOut
    /\ trace' = NoTrace
    /\ UNCHANGED << settings, jobs, job_searches, nsearch, unit,
                 cvs, applications, files, resp >>

Next ==
    \/ search_jobs
    \/ api_search_jobs
    \/ search_arbeitsagentur
    \/ search_remoteok
    \/ search_thelocal
    \/ task_raises
    \/ join
    \/ next_request

Spec == Init /\ [][Next]_vars

\* ------------------------------------------------ service methods on their own
\* _filter_jobs, _sort_jobs and calculate_job_match_score called once on
\* arguments drawn from small pools.
Senior == << "s", "r" >>
PartTime == << "p", "t" >>

\* postings as the schema carries them (the fields filter and sort read)
Posting(id, location, remote_option, job_type, experience_level, match_score, posted_date) ==
    [ id |-> id, location |-> location, remote_option |-> remote_option,
      job_type |-> job_type, experience_level |-> experience_level,
      match_score |-> match_score, posted_date |-> posted_date ]

UnitPostings ==
    { Posting(1, Hamburg, TRUE, FullTime, MidLevel, None, 1),
      Posting(2, Remote, FALSE, FullTime, Senior, Some(0), 1),
      Posting(3, Hamburg, FALSE, PartTime, MidLevel, Some(50), 2),
      Posting(4, << "R", "H", "a", "m" >>, TRUE, FullTime, MidLevel, None, 2) }

PostingLists == SeqsUpTo(UnitPostings, MaxList)

FilterRequests ==
    [ query : { << >> },
      location : { None, Some(EmptyStr), Some(<< "h", "a", "m" >>) },
      remote_only : BOOLEAN,
      experience_level : { None, Some(EmptyStr), Some(<< "m", "l" >>) },
      job_type : { None, Some(<< "f", "t" >>) },
      max_results : { 0 } ]

\* rows of table jobs as calculate_job_match_score reads them; keywords is
\* set(re.findall(r'\b\w+\b', f"{job.title} {job.description}".lower()))
ScoreJob(id, skills_required, keywords, match_score) ==
    [ id |-> id, external_id |-> Str_remote \o IntToStr(id),
      skills_required |-> skills_required, keywords |-> keywords,
      match_score |-> match_score ]

JobWithSkills == ScoreJob(1, << "CFD", "java" >>, { "cfd", "engineer" }, None)
JobWithoutSkills == ScoreJob(2, << >>, { "cfd" }, None)
ScoreTables ==
    { << >>, << JobWithSkills >>, << JobWithoutSkills >>,
      << JobWithSkills, JobWithoutSkills >> }
JobIds == 1..3

\* cv_content: skills as written in the CV, each experience entry as the
\* set of lower-cased words of its position and description
CvContents ==
    [ skills : { << >>, << "CFD" >>, << "cfd", "java" >> },
      experience : { << >>, << { "cfd", "engineer" } >>,
                     << { "cfd" }, { "sales" } >> } ]

NoCv == [ skills |-> << >>, experience |-> << >> ]
NoRequest == NoCall.search_request

UnitCall(op, postings, search_request, job_id, cv_content, globals) ==
    [ op |-> op, done |-> FALSE, postings |-> postings,
      search_request |-> search_request, job_id |-> job_id,
      cv_content |-> cv_content, globals |-> globals, jobs0 |-> << >>,
      result |-> Returned(<< >>), again |-> Returned(<< >>) ]

FilterCalls ==
    { UnitCall("filter", L, C, 0, NoCv, ModuleGlobals) :
        L \in PostingLists, C \in FilterRequests }
SortCalls ==
    { UnitCall("sort", L, NoRequest, 0, NoCv, ModuleGlobals) : L \in PostingLists }
ScoreCalls ==
    { UnitCall("score", << >>, NoRequest, id, cv, g) :
        id \in JobIds, cv \in CvContents, g \in { ModuleGlobals, GlobalsWithJob } }

\* ---------------------------------------------------------- toggle_service.py
\* The text of .env is a sequence of chunks: NL is the newline character, any
\* other chunk a run of characters without newline, written KEY=value and
\* kept as the record of its key and value.
Setting(k, v) == [ k |-> k, v |-> v ]
NL == Setting(<< >>, "\n")

\* f.readlines(): the lines of the text, each with its newline; the last
\* line has none when the text does not end with one
RECURSIVE ReadLinesFrom(_, _, _, _)
ReadLinesFrom(text, i, cur, acc) ==
    IF i > Len(text) THEN (IF cur = << >> THEN acc ELSE Append(acc, cur))
    ELSE IF text[i] = NL
    THEN ReadLinesFrom(text, i + 1, << >>, Append(acc, Append(cur, NL)))
    ELSE ReadLinesFrom(text, i + 1, Append(cur, text[i]), acc)
readlines(text) == ReadLinesFrom(text, 1, << >>, << >>)

\* f.writelines(lines): the lines one after the other, nothing in between
RECURSIVE writelines(_)
writelines(lines) ==
    IF Len(lines) = 0 THEN << >> ELSE Head(lines) \o writelines(Tail(lines))

\* line 12
valid_services == { "remoteok", "arbeitsagentur", "thelocal", "linkedin", "indeed" }

\* str.lower(), str.upper() and str.title() on the words given on the
\* command line
LowerArg(w) ==
    CASE w = "RemoteOK" -> "remoteok" [] w = "TRUE" -> "true" [] OTHER -> w
UpperArg(w) ==
    CASE w \in { "remoteok", "RemoteOK" } -> "REMOTEOK"
      [] w = "indeed" -> "INDEED"
      [] OTHER -> w
TitleArg(w) ==
    CASE w \in { "true", "TRUE" } -> "True"
      [] w = "false" -> "False"
      [] OTHER -> w

\* line 23: f"ENABLE_{service_name.upper()}"
EnvVar(service_name) == << "ENABLE_", UpperArg(service_name) >>

\* line 37: line.startswith(f"{env_var}=")
StartsWithVar(line, env_var) ==
    /\ Len(line) > 0
    /\ line[1] # NL
    /\ line[1].k = env_var

\* toggle_service(service_name, enabled); env is the .env file of the
\* working directory (None when there is none).  The returned value and the
\* file afterwards.
toggle_service(service_name, enabled, env) ==
    IF LowerArg(service_name) \notin valid_services
    THEN [ result |-> FALSE, env |-> env ]
    ELSE IF LowerArg(enabled) \notin { "true", "false" }
    THEN [ result |-> FALSE, env |-> env ]
    ELSE
      LET env_var == EnvVar(service_name)
          new_line == << Setting(env_var, TitleArg(enabled)), NL >>
      IN
      IF IsNone(env) THEN [ result |-> FALSE, env |-> env ]
      ELSE
        LET lines == readlines(Val(env))
            hits == { i \in 1..Len(lines) : StartsWithVar(lines[i], env_var) }
            first == CHOOSE i \in hits : \A j \in hits : i <= j
            updated == IF hits # { }
                       THEN [ lines EXCEPT ![first] = new_line ]
                       ELSE Append(lines, new_line)
        IN  [ result |-> TRUE, env |-> Some(writelines(updated)) ]

\* what a .env text is made of, and the texts tried
EnvChunks ==
    { NL, Setting(<< "A" >>, "1"),
      Setting(<< "ENABLE_", "REMOTEOK" >>, "False"),
      Setting(<< "ENABLE_", "INDEED" >>, "True") }
EnvFiles == { None } \cup { Some(t) : t \in SeqsUpTo(EnvChunks, MaxChunks) }

ToggleCalls ==
    { [ op |-> "toggle", done |-> FALSE, service_name |-> sv, enabled |-> en,
        env |-> f, env_after |-> f, env_again |-> f, result |-> FALSE ] :
        sv \in { "remoteok", "RemoteOK", "indeed", "monster" },
        en \in { "true", "TRUE", "false", "yes" }, f \in EnvFiles }

\* ------------------------------------------ services/application_service.py
\* rows of the tables cvs and applications; a foreign key is None when NULL
CvRow(id, owner_id, is_base_cv, content, original_pdf_path) ==
    [ id |-> id, owner_id |-> owner_id, is_base_cv |-> is_base_cv,
      content |-> content, original_pdf_path |-> original_pdf_path ]
AppRow(id, user_id, job_id, cv_id, status) ==
    [ id |-> id, user_id |-> user_id, job_id |-> job_id, cv_id |-> cv_id,
      status |-> status, cover_letter |-> None ]

\* the registered users (table users)
ApiUsers == { 1, 2 }

\* a > b for two scores
FracGt(a, b) == a.num * b.den > b.num * a.den

\* list.sort(key, reverse=True) and ORDER BY ... DESC: descending by the
\* keys (keys[i] is the key of seq[i]), rows of equal key in their earlier
\* order
SortedDesc(seq, keys) ==
    LET n == Len(seq)
        rank(i) == 1 + Cardinality({ j \in 1..n : FracGt(keys[j], keys[i]) })
                     + Cardinality({ j \in 1..(i - 1) : keys[j] = keys[i] })
    IN  [ p \in 1..n |-> seq[CHOOSE i \in 1..n : rank(i) = p] ]

\* ApplicationService.get_application_analytics(user_id): the keys
\* total_applications, status_breakdown and response_rate of the returned
\* dict (average_match_score and applications_this_month are computed from
\* job.match_score and created_at and do not enter the other three)
get_application_analytics(user_id) ==
    LET apps == SelectSeq(applications, LAMBDA a : a.user_id = user_id)
    IN
    IF Len(apps) = 0
    THEN [ total_applications |-> 0, status_breakdown |-> << >>, response_rate |-> Zero ]
    ELSE
      LET status_counts ==
              [ st \in { apps[i].status : i \in 1..Len(apps) } |->
                  Cardinality({ i \in 1..Len(apps) : apps[i].status = st }) ]
          get(st) == IF st \in DOMAIN status_counts THEN status_counts[st] ELSE 0
          applied_count == get("applied")
          responded_count == get("responded") + get("interview_scheduled") + get("offer")
          response_rate == IF applied_count > 0
                           THEN Frac(responded_count * 100, applied_count)
                           ELSE Zero
      IN  [ total_applications |-> Len(apps), status_breakdown |-> status_counts,
            response_rate |-> response_rate ]

\* application tables tried: up to MaxList applications of two users
AnalyticsTables ==
    { [ i \in DOMAIN f |-> AppRow(i, f[i][1], Some(1), Some(1), f[i][2]) ] :
        f \in SeqsUpTo(ApiUsers \X { "draft", "applied", "responded", "offer" }, MaxList) }
AnalyticsCalls ==
    { [ op |-> "analytics", done |-> FALSE, user_id |-> u,
        result |-> [ total_applications |-> 0, status_breakdown |-> << >>,
                     response_rate |-> Zero ] ] : u \in ApiUsers }

\* a row of table jobs with the columns the scoring and the ordering read
DatedJob(id, skills_required, keywords, match_score, posted_date) ==
    [ id |-> id, skills_required |-> skills_required, keywords |-> keywords,
      match_score |-> match_score, posted_date |-> posted_date ]

\* .limit(20) of line 181 and .limit(50) of line 188
RecentLimit == 20
AvailableLimit == 50

\* lines 193-205: the scoring of every CV-job combination, in order; each
\* call may store the score on the job; the first exception ends the loop
RECURSIVE ScorePairs(_, _, _, _, _)
ScorePairs(pairs, k, db, recommendations, globals) ==
    IF k > Len(pairs) THEN [ result |-> Returned(recommendations), db |-> db ]
    ELSE
      LET scored == calculate_job_match_score(db, pairs[k].job.id,
                                              pairs[k].cv.content, globals)
      IN
      IF scored.result.raised THEN scored
      ELSE
        LET match_score == scored.result.value
        IN  ScorePairs(pairs, k + 1, scored.db,
                IF FracGt(match_score, Frac(50, 1))
                THEN Append(recommendations,
                            [ job |-> pairs[k].job.id, cv |-> pairs[k].cv.id,
                              match_score |-> match_score,
                              recommended_cv_id |-> pairs[k].cv.id ])
                ELSE recommendations,
                globals)

\* ApplicationService.get_application_recommendations(user_id, limit): the
\* returned list (or the exception) and the jobs table afterwards.  The
\* query of line 179-181 has no ORDER BY; its rows come in table order.
get_application_recommendations(user_id, limit, globals) ==
    IF user_id \notin ApiUsers THEN [ result |-> Raised("ValueError"), db |-> jobs ]
    ELSE
      LET base_cvs == SelectSeq(cvs, LAMBDA c : c.owner_id = user_id /\ c.is_base_cv)
      IN
      IF Len(base_cvs) = 0 THEN [ result |-> Returned(<< >>), db |-> jobs ]
      ELSE
        LET recent_applications ==
                Slice(SelectSeq(applications, LAMBDA a : a.user_id = user_id), RecentLimit)
            applied_job_ids == { recent_applications[i].job_id :
                                   i \in 1..Len(recent_applications) }
            not_applied == SelectSeq(jobs, LAMBDA j : Some(j.id) \notin applied_job_ids)
            available_jobs ==
                Slice(SortedDesc(not_applied,
                                 [ i \in DOMAIN not_applied |->
                                     Frac(not_applied[i].posted_date, 1) ]),
                      AvailableLimit)
            n == Len(available_jobs)
            pairs == [ k \in 1..(Len(base_cvs) * n) |->
                         [ cv |-> base_cvs[((k - 1) \div n) + 1],
                           job |-> available_jobs[((k - 1) % n) + 1] ] ]
            scored == ScorePairs(pairs, 1, jobs, << >>, globals)
        IN
        IF scored.result.raised THEN scored
        ELSE [ result |->
                 Returned(Slice(SortedDesc(scored.result.value,
                                           [ i \in DOMAIN scored.result.value |->
                                               scored.result.value[i].match_score ]),
                                limit)),
               db |-> scored.db ]

\* the tables tried with the recommendations
RecJobTables ==
    LET A == DatedJob(1, << "CFD", "java" >>, { "cfd", "engineer" }, None, 1)
        B == DatedJob(2, << "CFD" >>, { "cfd" }, None, 2)
        C == DatedJob(3, << >>, { "cfd" }, None, 3)
    IN  { << A >>, << A, B >>, << A, B, C >> }
RecCvTables ==
    { [ i \in DOMAIN f |-> CvRow(i, f[i][1][1], f[i][1][2], f[i][2], None) ] :
        f \in SeqsUpTo({ << 1, TRUE >>, << 1, FALSE >>, << 2, TRUE >> }
                          \X { c \in CvContents : Len(c.experience) <= 1 }, 2) }
\* no application, one, one of the other user, and one more than the query
\* of line 181 reads: RecentLimit for job 2 and then one for job 1
RecHistories ==
    { << >>,
      << AppRow(1, 1, Some(1), Some(1), "applied") >>,
      << AppRow(1, 2, Some(1), Some(1), "applied") >>,
      [ i \in 1..(RecentLimit + 1) |->
          AppRow(i, 1, Some(IF i <= RecentLimit THEN 2 ELSE 1), Some(1), "applied") ] }
RecommendCalls ==
    { [ op |-> "recommend", done |-> FALSE, user_id |-> u, limit |-> l,
        globals |-> g, result |-> Returned(<< >>) ] :
        u \in { 1, 3 }, l \in { 1, 2, 5 }, g \in { ModuleGlobals, GlobalsWithJob } }

\* application.job and application.cv: the row a foreign key refers to, None
\* when the key is NULL or no row has that id
Related(table, key) ==
    IF IsNone(key) THEN None
    ELSE LET hits == SelectSeq(table, LAMBDA r : r.id = Val(key))
         IN  IF Len(hits) = 0 THEN None ELSE Some(hits[1])

\* ApplicationService.analyze_application_strength(application_id, user_id):
\* the key match_score of the returned analysis (or the exception) and the
\* jobs table afterwards.  The other keys come from the language model.
analyze_application_strength(application_id, user_id, globals) ==
    LET found == SelectSeq(applications,
                       LAMBDA a : a.id = application_id /\ a.user_id = user_id)
    IN
    IF Len(found) = 0 THEN [ result |-> Raised("ValueError"), db |-> jobs ]
    ELSE
      LET job == Related(jobs, found[1].job_id)
          cv == Related(cvs, found[1].cv_id)
      IN
      IF IsNone(job) \/ IsNone(cv)
      THEN [ result |-> Raised("AttributeError"), db |-> jobs ]
      ELSE IF ~ Truthy(Val(job).match_score) \/ Val(Val(job).match_score) = Zero
      THEN calculate_job_match_score(jobs, Val(job).id, Val(cv).content, globals)
      ELSE [ result |-> Returned(Val(Val(job).match_score)), db |-> jobs ]

\* the tables tried with the analysis: one application of user 1 with CV 1
\* for job 1, whose match_score is not set or was set through PUT /jobs/1
AnalyzeJobTables ==
    { << DatedJob(1, << "CFD", "java" >>, { "cfd", "engineer" }, ms, 1) >> :
        ms \in { None, Some(Frac(30, 1)) } }
OtherCvContents == { c \in CvContents : Len(c.experience) <= 1 }
AnalyzeCalls ==
    { [ op |-> "analyze", done |-> FALSE, application_id |-> a, user_id |-> u,
        globals |-> g, scored |-> 0, result |-> Returned(Zero) ] :
        a \in { 1, 2 }, u \in ApiUsers, g \in { ModuleGlobals, GlobalsWithJob } }

UnitInit ==
    /\ settings = SettingsAsDeclared
    /\ job_searches = << >>
    /\ pc = "idle"
    /\ call = NoCall
    /\ tasks = << >>
    /\ out = NoOut
    /\ trace = NoTrace
    /\ nsearch = 0
    /\ unit \in FilterCalls \cup SortCalls \cup ScoreCalls \cup ToggleCalls
                \cup AnalyticsCalls \cup RecommendCalls \cup AnalyzeCalls
    /\ jobs \in (CASE unit.op = "score" -> ScoreTables
                  [] unit.op = "recommend" -> RecJobTables
                  [] unit.op = "analyze" -> AnalyzeJobTables
                  [] OTHER -> { << >> })
    /\ cvs \in (CASE unit.op = "recommend" -> RecCvTables
                 [] unit.op = "analyze" ->
                      { << CvRow(1, 1, TRUE, c, None) >> : c \in OtherCvContents }
                 [] OTHER -> { << >> })
    /\ applications \in (CASE unit.op = "analytics" -> AnalyticsTables
                          [] unit.op = "recommend" -> RecHistories
                          [] unit.op = "analyze" ->
                               { << AppRow(1, 1, Some(1), Some(1), "applied") >> }
                          [] OTHER -> { << >> })
    /\ files = { }
    /\ resp = NoResp

\* self._filter_jobs(jobs, search_request), and once more on its result
call_filter_jobs ==
    /\ unit.op = "filter" /\ ~ unit.done
    /\ LET filtered == _filter_jobs(unit.postings, unit.search_request)
       IN  unit' = [ unit EXCEPT !.done = TRUE,
                                 !.result = Returned(filtered),
                                 !.again = Returned(_filter_jobs(filtered,
                                                        unit.search_request)) ]
    /\ UNCHANGED << settings, jobs, job_searches, pc, call, tasks, out, trace, nsearch,
                 cvs, applications, files, resp >>

\* self._sort_jobs(jobs)
call_sort_jobs ==
    /\ unit.op = "sort" /\ ~ unit.done
    /\ unit' = [ unit EXCEPT !.done = TRUE,
                             !.result = Returned(_sort_jobs(unit.postings)) ]
    /\ UNCHANGED << settings, jobs, job_searches, pc, call, tasks, out, trace, nsearch,
                 cvs, applications, files, resp >>

\* calculate_job_match_score(job_id, cv_content), then the same call again
call_calculate_job_match_score ==
    /\ unit.op = "score" /\ ~ unit.done
    /\ LET first == calculate_job_match_score(jobs, unit.job_id, unit.cv_content,
                                              unit.globals)
           second == calculate_job_match_score(first.db, unit.job_id,
                                               unit.cv_content, unit.globals)
       IN  /\ unit' = [ unit EXCEPT !.done = TRUE, !.jobs0 = jobs,
                                    !.result = first.result,
                                    !.again = second.result ]
           /\ jobs' = second.db
    /\ UNCHANGED << settings, job_searches, pc, call, tasks, out, trace, nsearch,
                 cvs, applications, files, resp >>

\* python toggle_service.py <service_name> <true/false>, run twice
call_toggle_service ==
    /\ unit.op = "toggle" /\ ~ unit.done
    /\ LET once == toggle_service(unit.service_name, unit.enabled, unit.env)
           twice == toggle_service(unit.service_name, unit.enabled, once.env)
       IN  unit' = [ unit EXCEPT !.done = TRUE, !.result = once.result,
                                 !.env_after = once.env, !.env_again = twice.env ]
    /\ UNCHANGED << settings, jobs, job_searches, pc, call, tasks, out, trace, nsearch,
                 cvs, applications, files, resp >>

call_get_application_analytics ==
    /\ unit.op = "analytics" /\ ~ unit.done
    /\ unit' = [ unit EXCEPT !.done = TRUE,
                             !.result = get_application_analytics(unit.user_id) ]
    /\ UNCHANGED << settings, jobs, job_searches, pc, call, tasks, out, trace, nsearch,
                    cvs, applications, files, resp >>

call_get_application_recommendations ==
    /\ unit.op = "recommend" /\ ~ unit.done
    /\ LET r == get_application_recommendations(unit.user_id, unit.limit, unit.globals)
       IN  /\ unit' = [ unit EXCEPT !.done = TRUE, !.result = r.result ]
           /\ jobs' = r.db
    /\ UNCHANGED << settings, job_searches, pc, call, tasks, out, trace, nsearch,
                    cvs, applications, files, resp >>

\* before the analysis, job 1 is scored for the CV of somebody else (a
\* recommendation run or an analysis of another application for the job)
score_other_cv ==
    /\ unit.op = "analyze" /\ ~ unit.done /\ unit.scored < MaxScorings
    /\ \E cv_content \in OtherCvContents :
         jobs' = calculate_job_match_score(jobs, 1, cv_content, unit.globals).db
    /\ unit' = [ unit EXCEPT !.scored = @ + 1 ]
    /\ UNCHANGED << settings, job_searches, pc, call, tasks, out, trace, nsearch,
                    cvs, applications, files, resp >>

call_analyze_application_strength ==
    /\ unit.op = "analyze" /\ ~ unit.done
    /\ LET r == analyze_application_strength(unit.application_id, unit.user_id,
                                             unit.globals)
       IN  /\ unit' = [ unit EXCEPT !.done = TRUE, !.result = r.result ]
           /\ jobs' = r.db
    /\ UNCHANGED << settings, job_searches, pc, call, tasks, out, trace, nsearch,
                    cvs, applications, files, resp >>

UnitNext ==
    \/ call_filter_jobs
    \/ call_sort_jobs
    \/ call_calculate_job_match_score
    \/ call_toggle_service
    \/ call_get_application_analytics
    \/ call_get_application_recommendations
    \/ score_other_cv
    \/ call_analyze_application_strength

UnitSpec == UnitInit /\ [][UnitNext]_vars

\* ------------------------------------- api/jobs.py, api/cvs.py, api/applications.py
\* The endpoints as requests of the two users, answered one at a time.
\* current_user is the user Depends(get_current_user) resolves the token to.
searchVars == << settings, job_searches, pc, call, tasks, out, trace, nsearch, unit >>

\* the answer to a request: its number, endpoint, caller, path id and status
Answer(op, user, id, status) ==
    [ seq |-> resp.seq + 1, op |-> op, user |-> user, id |-> id, status |-> status ]

\* db.query(CV).filter(CV.id == cv_id).all(), without the owner
AnyCv(cv_id, user) == SelectSeq(cvs, LAMBDA c : c.id = cv_id)

\* db.query(CV).filter(CV.id == cv_id, CV.owner_id == current_user.id)
OwnCv(cv_id, user) == SelectSeq(cvs, LAMBDA c : c.id = cv_id /\ c.owner_id = user)

\* db.query(Application).filter(Application.id == application_id,
\*                              Application.user_id == current_user.id)
OwnApplication(application_id, user) ==
    SelectSeq(applications, LAMBDA a : a.id = application_id /\ a.user_id = user)

\* db.delete(row); db.commit(): the row goes, and the foreign keys of the
\* applications that referred to it (relationship without cascade) become NULL
DeleteRow(table, id) == SelectSeq(table, LAMBDA r : r.id # id)
Orphaned(column, id) ==
    [ i \in DOMAIN applications |->
        IF applications[i][column] = Some(id)
        THEN [ applications[i] EXCEPT ![column] = None ]
        ELSE applications[i] ]

\* response_model=ApplicationSchema requires job and cv
Serializable(application) ==
    /\ ~ IsNone(Related(jobs, application.job_id))
    /\ ~ IsNone(Related(cvs, application.cv_id))

\* the ids the requests name, in the path and in the body
PathIds == 1..2
FileNames == { "a.pdf", "a.txt" }

\* two jobs and a CV of each user are there when the run starts
ApiInit ==
    /\ settings = SettingsAsDeclared
    /\ job_searches = << >>
    /\ pc = "idle"
    /\ call = NoCall
    /\ tasks = << >>
    /\ out = NoOut
    /\ trace = NoTrace
    /\ nsearch = 0
    /\ unit = NoUnit
    /\ jobs = << DatedJob(1, << "CFD" >>, { "cfd" }, None, 1),
                 DatedJob(2, << >>, { }, None, 2) >>
    /\ cvs = << CvRow(1, 1, FALSE, NoCv, None), CvRow(2, 2, FALSE, NoCv, None) >>
    /\ applications = << >>
    /\ files = { }
    /\ resp = NoResp

\* POST /jobs/
create_job ==
    /\ resp.seq < MaxCalls
    /\ \E current_user \in ApiUsers :
         /\ jobs' = Append(jobs, DatedJob(NextId(jobs), << >>, { }, None, Now))
         /\ resp' = Answer("create_job", current_user, NextId(jobs), 200)
    /\ UNCHANGED << searchVars, cvs, applications, files >>

\* DELETE /jobs/{job_id}
delete_job ==
    /\ resp.seq < MaxCalls
    /\ \E current_user \in ApiUsers, job_id \in PathIds :
         IF IsNone(JobById(jobs, job_id))
         THEN /\ resp' = Answer("delete_job", current_user, job_id, 404)
              /\ UNCHANGED << jobs, applications >>
         ELSE /\ jobs' = DeleteRow(jobs, job_id)
              /\ applications' = Orphaned("job_id", job_id)
              /\ resp' = Answer("delete_job", current_user, job_id, 200)
    /\ UNCHANGED << searchVars, cvs, files >>

\* POST /cvs/
create_cv ==
    /\ resp.seq < MaxCalls
    /\ \E current_user \in ApiUsers :
         /\ cvs' = Append(cvs, CvRow(NextId(cvs), current_user, FALSE, NoCv, None))
         /\ resp' = Answer("create_cv", current_user, NextId(cvs), 200)
    /\ UNCHANGED << searchVars, jobs, applications, files >>

\* POST /cvs/upload -> CVService.parse_pdf_cv; parsed tells whether the text
\* extraction, the parsing and the commit went through
upload_cv ==
    /\ resp.seq < MaxCalls
    /\ \E current_user \in ApiUsers, filename \in FileNames, parsed \in BOOLEAN :
         LET file_path == << current_user, filename >>
         IN
         IF filename # "a.pdf"
         THEN /\ resp' = Answer("upload_cv", current_user, 0, 400)
              /\ UNCHANGED << cvs, files >>
         ELSE IF parsed
         THEN /\ files' = files \cup { file_path }
              /\ cvs' = Append(cvs, CvRow(NextId(cvs), current_user, TRUE, NoCv,
                                          Some(file_path)))
              /\ resp' = Answer("upload_cv", current_user, NextId(cvs), 200)
         ELSE /\ files' = (files \cup { file_path }) \ { file_path }
              /\ resp' = Answer("upload_cv", current_user, 0, 500)
              /\ UNCHANGED cvs
    /\ UNCHANGED << searchVars, jobs, applications >>

\* GET /cvs/{cv_id}
get_cv ==
    /\ resp.seq < MaxCalls
    /\ \E current_user \in ApiUsers, cv_id \in PathIds :
         resp' = Answer("get_cv", current_user, cv_id,
                        IF Len(OwnCv(cv_id, current_user)) = 0 THEN 404 ELSE 200)
    /\ UNCHANGED << searchVars, jobs, cvs, applications, files >>

\* PUT /cvs/{cv_id}
update_cv ==
    /\ resp.seq < MaxCalls
    /\ \E current_user \in ApiUsers, cv_id \in PathIds :
         IF Len(OwnCv(cv_id, current_user)) = 0
         THEN /\ resp' = Answer("update_cv", current_user, cv_id, 404)
              /\ UNCHANGED cvs
         ELSE /\ cvs' = [ i \in DOMAIN cvs |->
                            IF cvs[i].id = cv_id
                            THEN [ cvs[i] EXCEPT !.content =
                                     [ skills |-> << "CFD" >>, experience |-> << >> ] ] ELSE cvs[i] ]
              /\ resp' = Answer("update_cv", current_user, cv_id, 200)
    /\ UNCHANGED << searchVars, jobs, applications, files >>

\* POST /cvs/{cv_id}/adapt -> CVService.adapt_cv_for_job
adapt_cv ==
    /\ resp.seq < MaxCalls
    /\ \E current_user \in ApiUsers, cv_id \in PathIds, job_id \in PathIds :
         LET original_cv == OwnCv(cv_id, current_user)
         IN
         IF Len(original_cv) = 0 \/ IsNone(JobById(jobs, job_id))
         THEN /\ resp' = Answer("adapt_cv", current_user, cv_id, 404)
              /\ UNCHANGED cvs
         ELSE /\ cvs' = Append(cvs, CvRow(NextId(cvs), current_user, FALSE,
                                          original_cv[1].content,
                                          original_cv[1].original_pdf_path))
              /\ resp' = Answer("adapt_cv", current_user, cv_id, 200)
    /\ UNCHANGED << searchVars, jobs, applications, files >>

\* DELETE /cvs/{cv_id}
delete_cv ==
    /\ resp.seq < MaxCalls
    /\ \E current_user \in ApiUsers, cv_id \in PathIds :
         IF Len(OwnCv(cv_id, current_user)) = 0
         THEN /\ resp' = Answer("delete_cv", current_user, cv_id, 404)
              /\ UNCHANGED << cvs, applications >>
         ELSE /\ cvs' = DeleteRow(cvs, cv_id)
              /\ applications' = Orphaned("cv_id", cv_id)
              /\ resp' = Answer("delete_cv", current_user, cv_id, 200)
    /\ UNCHANGED << searchVars, jobs, files >>

\* POST /applications/
api_create_application ==
    /\ resp.seq < MaxCalls
    /\ \E current_user \in ApiUsers, job_id \in PathIds, cv_id \in PathIds :
         IF IsNone(JobById(jobs, job_id)) \/ Len(OwnCv(cv_id, current_user)) = 0
         THEN /\ resp' = Answer("create_application", current_user, 0, 404)
              /\ UNCHANGED applications
         ELSE /\ applications' =
                    Append(applications,
                           AppRow(NextId(applications), current_user, Some(job_id),
                                  Some(cv_id), "pending"))
              /\ resp' = Answer("create_application", current_user,
                                NextId(applications), 200)
    /\ UNCHANGED << searchVars, jobs, cvs, files >>

\* GET /applications/{application_id}
get_application ==
    /\ resp.seq < MaxCalls
    /\ \E current_user \in ApiUsers, application_id \in PathIds :
         LET application == OwnApplication(application_id, current_user)
         IN  resp' = Answer("get_application", current_user, application_id,
                            IF Len(application) = 0 THEN 404
                            ELSE IF Serializable(application[1]) THEN 200 ELSE 500)
    /\ UNCHANGED << searchVars, jobs, cvs, applications, files >>

\* PUT /applications/{application_id}
update_application ==
    /\ resp.seq < MaxCalls
    /\ \E current_user \in ApiUsers, application_id \in PathIds :
         LET application == OwnApplication(application_id, current_user)
         IN
         IF Len(application) = 0
         THEN /\ resp' = Answer("update_application", current_user, application_id, 404)
              /\ UNCHANGED applications
         ELSE /\ applications' =
                    [ i \in DOMAIN applications |->
                        IF applications[i].id = application_id
                        THEN [ applications[i] EXCEPT !.status = "applied" ]
                        ELSE applications[i] ]
              /\ resp' = Answer("update_application", current_user, application_id,
                                IF Serializable(application[1]) THEN 200 ELSE 500)
    /\ UNCHANGED << searchVars, jobs, cvs, files >>

\* ApplicationService.generate_cover_letter(job_id, cv_id, user_id, ...): the
\* letter, kept as the job and the CV it was written from
ApplicationService_generate_cover_letter(job_id, cv_id, user_id) ==
    IF IsNone(JobById(jobs, job_id)) \/ Len(OwnCv(cv_id, user_id)) = 0
    THEN Raised("ValueError")
    ELSE Returned([ job |-> job_id, cv |-> cv_id ])

\* POST /applications/{application_id}/cover-letter
generate_cover_letter ==
    /\ resp.seq < MaxCalls
    /\ \E current_user \in ApiUsers, application_id \in PathIds,
          job_id \in PathIds, cv_id \in PathIds :
         LET application == OwnApplication(application_id, current_user)
             cover_letter ==
                 ApplicationService_generate_cover_letter(job_id, cv_id, current_user)
         IN
         IF Len(application) = 0
         THEN /\ resp' = Answer("generate_cover_letter", current_user, application_id, 404)
              /\ UNCHANGED applications
         ELSE IF cover_letter.raised
         THEN /\ resp' = Answer("generate_cover_letter", current_user, application_id, 500)
              /\ UNCHANGED applications
         ELSE /\ applications' =
                    [ i \in DOMAIN applications |->
                        IF applications[i].id = application_id
                        THEN [ applications[i] EXCEPT
                                 !.cover_letter = Some(cover_letter.value) ]
                        ELSE applications[i] ]
              /\ resp' = Answer("generate_cover_letter", current_user, application_id, 200)
    /\ UNCHANGED << searchVars, jobs, cvs, files >>

\* DELETE /applications/{application_id}
delete_application ==
    /\ resp.seq < MaxCalls
    /\ \E current_user \in ApiUsers, application_id \in PathIds :
         IF Len(OwnApplication(application_id, current_user)) = 0
         THEN /\ resp' = Answer("delete_application", current_user, application_id, 404)
              /\ UNCHANGED applications
         ELSE /\ applications' = DeleteRow(applications, application_id)
              /\ resp' = Answer("delete_application", current_user, application_id, 200)
    /\ UNCHANGED << searchVars, jobs, cvs, files >>

ApiNext ==
    \/ create_job
    \/ delete_job
    \/ create_cv
    \/ upload_cv
    \/ get_cv
    \/ update_cv
    \/ adapt_cv
    \/ delete_cv
    \/ api_create_application
    \/ get_application
    \/ update_application
    \/ generate_cover_letter
    \/ delete_application

ApiSpec == ApiInit /\ [][ApiNext]_vars

\* ================================================================== claims
ExternalIds(rows) == { rows[i].external_id : i \in 1..Len(rows) }
Stored(external_id) == external_id \in ExternalIds(jobs)

RECURSIVE Flatten(_)
Flatten(lists) ==
    IF Len(lists) = 0 THEN << >> ELSE Head(lists) \o Flatten(Tail(lists))

Succeeded(t) == ~ t.result.raised
\* an adapter that raised, or that got no payload and fell back to []
Failed(t) == t.result.raised \/ ~ t.fetched

TaskOf(source) == tasks[TaskIndex(source)]
Dispatched(source) == \E i \in 1..Len(tasks) : tasks[i].source = source

\* C1: when search_jobs has returned after dispatching adapters of which some
\* raised or failed, no exception reached the caller and the merged list is
\* exactly the concatenation, in dispatch order, of the lists of the adapters
\* that returned one.
C1_PartialFailure ==
    (pc = "returned" /\ Len(tasks) > 0) =>
        /\ ~ out.raised
        /\ LET ok == SelectSeq(tasks, Succeeded)
           IN  out.merged = Flatten([ i \in 1..Len(ok) |-> ok[i].result.value ])

\* two of three adapters fail (one raises, one has nothing) and RemoteOK
\* returns two postings, which are the merged list
C1_Witness ==
    /\ pc = "returned"
    /\ Len(tasks) = 3
    /\ TaskOf("arbeitsagentur").result.raised
    /\ Failed(TaskOf("thelocal"))
    /\ Succeeded(TaskOf("remoteok"))
    /\ Len(TaskOf("remoteok").result.value) = 2
    /\ out.merged = TaskOf("remoteok").result.value

\* C2: when every dispatched adapter failed, or no adapter was dispatched
\* because every source is disabled, search_jobs returns the empty list and
\* raises nothing.
C2_TotalFailure ==
    (pc = "returned" /\ \A i \in 1..Len(tasks) : Failed(tasks[i])) =>
        /\ out.result = << >>
        /\ ~ out.raised

\* all three adapters were dispatched and failed while storage already held
\* postings of an earlier search
C2_Witness ==
    /\ pc = "returned"
    /\ Len(tasks) = 3
    /\ \A i \in 1..Len(tasks) : Failed(tasks[i])
    /\ TaskOf("remoteok").result.raised
    /\ Len(jobs) > 0
    /\ out.result = << >>

\* every source disabled: nothing dispatched, the empty list returned
C2_WitnessDisabled ==
    /\ pc = "returned"
    /\ ~ call.sources.raised
    /\ call.sources.value = << >>
    /\ out.result = << >>

C4_Dedup ==
    /\ \A i, j \in 1..Len(jobs) :
          jobs[i].external_id = jobs[j].external_id => i = j
    /\ (pc \in { "gather", "returned" }) =>
          /\ \A k \in 1..Len(trace.inserted) :
                trace.inserted[k].external_id \notin ExternalIds(trace.jobs0)
          /\ (Dispatched("remoteok") /\ TaskOf("remoteok").done
                /\ Succeeded(TaskOf("remoteok"))) =>
                \A c \in trace.computed :
                    (c.source = "remoteok" /\ c.external_id \in ExternalIds(trace.jobs0)) =>
                        \E k \in 1..Len(TaskOf("remoteok").result.value) :
                            \E r \in 1..Len(trace.jobs0) :
                                /\ trace.jobs0[r].external_id = c.external_id
                                /\ TaskOf("remoteok").result.value[k] = trace.jobs0[r]

\* the second search meets only external_ids the first one stored: it
\* inserts nothing and returns the stored rows
C4_Witness ==
    /\ pc = "returned"
    /\ nsearch = 2
    /\ Len(trace.jobs0) = 2
    /\ jobs = trace.jobs0
    /\ trace.inserted = << >>
    /\ Dispatched("remoteok")
    /\ Len(TaskOf("remoteok").result.value) = 2
    /\ \A k \in 1..2 : TaskOf("remoteok").result.value[k].external_id
                          \in ExternalIds(trace.jobs0)

\* C5: within one search, external ids computed by different adapters differ,
\* and two postings of the merged list that come from different sources have
\* different external ids.
C5_Namespacing ==
    /\ \A c, d \in trace.computed :
          c.source # d.source => c.external_id # d.external_id
    /\ \A i, j \in 1..Len(out.merged) :
          out.merged[i].source # out.merged[j].source =>
              out.merged[i].external_id # out.merged[j].external_id

\* both adapters normalised an item with the same source-local id "0"
C5_Witness ==
    /\ pc = "returned"
    /\ [ source |-> "arbeitsagentur", external_id |-> Str_ba \o << "0" >> ]
          \in trace.computed
    /\ [ source |-> "remoteok", external_id |-> Str_remote \o << "0" >> ]
          \in trace.computed
    /\ Len(out.merged) > 0

\* C6: the returned list has at most max_results postings, whatever integer
\* max_results is.
C6_ResultCap ==
    (pc = "returned" /\ ~ call.sources.raised) =>
        Len(out.result) <= call.search_request.max_results

\* the count-independent part of the posting an offered item normalises to
Projection(location, posted_date) ==
    [ location |-> location, posted_date |-> posted_date,
      remote_option |-> TRUE, job_type |-> FullTime, experience_level |-> MidLevel,
      match_score |-> None ]
ProjectItem(job_data) ==
    Projection(IF IsNone(job_data.location) THEN Remote ELSE Val(job_data.location),
               IF IsNone(job_data.epoch) \/ Val(job_data.epoch) = 0
               THEN Now ELSE Val(job_data.epoch))
ProjectJob(job) == Projection(job.location, job.posted_date)

Identified ==
    IF call.via = "api" THEN call.current_user ELSE call.user_id

C8_SearchHistory ==
    (pc = "returned" /\ call.db_ok /\ ~ call.sources.raised) =>
        IF IsNone(Identified)
        THEN job_searches = trace.searches0
        ELSE /\ Len(job_searches) = Len(trace.searches0) + 1
             /\ SubSeq(job_searches, 1, Len(trace.searches0)) = trace.searches0
             /\ job_searches[Len(job_searches)].user_id = Val(Identified)

\* the sources the registry is to report for a configuration
Usable(st) ==
    { src \in NoKeySources : st.enable[src] }
    \cup (IF st.enable["linkedin"] /\ st.linkedin_api_key # EmptyStr
             /\ st.linkedin_api_key # LinkedinPlaceholder
          THEN { "linkedin" } ELSE { })
    \cup (IF st.enable["indeed"] /\ st.indeed_api_key # EmptyStr
             /\ st.indeed_api_key # IndeedPlaceholder
          THEN { "indeed" } ELSE { })

\* C9: for every configuration the registry, once called, has returned
\* without error exactly the usable sources.
C9_Registry ==
    pc # "idle" =>
          /\ ~ call.sources.raised
          /\ Range(call.sources.value) = Usable(settings)

CaughtByAdapter == { "Exception", "HTTPStatusError", "TimeoutException",
                     "ValidationError", "OperationalError", "IntegrityError",
                     "AttributeError" }

\* C11: every adapter task that has resolved after its network call ended in
\* a payload, an error or a storage failure holds a list, never one of the
\* exceptions the adapter is to catch; and it holds the empty list when the
\* fetch as a whole failed.
C11_AdapterFailSoft ==
    \A i \in 1..Len(tasks) :
        tasks[i].done =>
            /\ tasks[i].result.raised => tasks[i].result.exc \notin CaughtByAdapter
            /\ (~ tasks[i].result.raised /\ ~ tasks[i].fetched) =>
                   tasks[i].result.value = << >>

\* RemoteOK fetched a payload with a matching posting, every commit failed,
\* and the adapter resolved to a list; the Arbeitsagentur fetch failed and
\* that adapter resolved to []
C11_Witness ==
    /\ pc = "gather"
    /\ ~ call.db_ok
    /\ Dispatched("remoteok") /\ TaskOf("remoteok").done
    /\ TaskOf("remoteok").fetched
    /\ Len(trace.offered) > 0
    /\ call.search_request.max_results > 0
    /\ TaskOf("remoteok").result = Returned(<< >>)
    /\ Dispatched("arbeitsagentur") /\ TaskOf("arbeitsagentur").done
    /\ ~ TaskOf("arbeitsagentur").fetched
    /\ TaskOf("arbeitsagentur").result = Returned(<< >>)

\* a storage write of the current search was attempted and failed
WriteFailed ==
    /\ ~ call.db_ok
    /\ ~ call.sources.raised
    /\ \/ TruthyId(call.user_id)
       \/ \E c \in trace.computed :
             /\ c.source = "remoteok"
             /\ c.external_id \notin ExternalIds(trace.jobs0)

C20_JoinBarrier ==
    /\ pc = "gather" =>
          /\ out = NoOut
          /\ job_searches = trace.searches0
    /\ pc = "returned" => \A i \in 1..Len(tasks) : tasks[i].done

\* the Arbeitsagentur task ended with an exception; RemoteOK and TheLocal
\* resolved to their own lists, RemoteOK to one posting that was merged
C20_Witness ==
    /\ pc = "returned"
    /\ Len(tasks) = 3
    /\ TaskOf("arbeitsagentur").result.raised
    /\ TaskOf("remoteok").done /\ TaskOf("remoteok").fetched
    /\ Len(TaskOf("remoteok").result.value) = 1
    /\ TaskOf("thelocal").done /\ ~ TaskOf("thelocal").result.raised
    /\ out.merged = TaskOf("remoteok").result.value

\* a criterion is present when it is given and not blank
Present(c) == ~ IsNone(c) /\ Val(c) # EmptyStr

\* the posting satisfies every criterion present in the request
Satisfies(job, C) ==
    /\ C.remote_only => job.remote_option
    /\ Present(C.experience_level) =>
          Lower(job.experience_level) = Lower(Val(C.experience_level))
    /\ Present(C.job_type) => Lower(job.job_type) = Lower(Val(C.job_type))
    /\ Present(C.location) =>
          \E i \in 0..(Len(job.location) - Len(Val(C.location))) :
              \A k \in 1..Len(Val(C.location)) :
                  Lower(job.location)[i + k] = Lower(Val(C.location))[k]

\* C12: _filter_jobs returns, in input order, exactly the postings that
\* satisfy every criterion present in the request (a criterion that is None
\* or blank is absent and removes nothing).
C12_FilterSemantics ==
    (unit.op = "filter" /\ unit.done) =>
        unit.result = Returned(SelectSeq(unit.postings,
                                         LAMBDA job : Satisfies(job, unit.search_request)))

\* all four criteria present; of three postings the first and the third are
\* kept, in that order
C12_Witness ==
    /\ unit.op = "filter" /\ unit.done
    /\ unit.search_request.remote_only
    /\ Present(unit.search_request.experience_level)
    /\ Present(unit.search_request.job_type)
    /\ Present(unit.search_request.location)
    /\ Len(unit.postings) = 3
    /\ unit.result.value = << unit.postings[1], unit.postings[3] >>
    /\ unit.postings[1] # unit.postings[3]

\* C13: filtering the result of _filter_jobs again with the same criteria
\* gives the same list.
C13_FilterIdempotent ==
    (unit.op = "filter" /\ unit.done) => unit.again = unit.result

\* a filter that removed something, applied twice
C13_Witness ==
    /\ unit.op = "filter" /\ unit.done
    /\ unit.search_request.remote_only
    /\ Len(unit.postings) = 3
    /\ Len(unit.result.value) = 2
    /\ unit.again = unit.result

\* the postings of a list as a bag
BagOf(seq) == [ x \in Range(seq) |-> Cardinality({ i \in 1..Len(seq) : seq[i] = x }) ]
Score0(x) == IF IsNone(x.match_score) THEN 0 ELSE Val(x.match_score)

\* C14: _sort_jobs returns a permutation of its input in which every posting
\* is followed only by postings with a lower score (missing counting as 0),
\* or the same score and a posted_date that is not later.
C14_SortOrder ==
    (unit.op = "sort" /\ unit.done) =>
        /\ ~ unit.result.raised
        /\ BagOf(unit.result.value) = BagOf(unit.postings)
        /\ \A i, j \in 1..Len(unit.result.value) :
              i < j =>
                LET a == unit.result.value[i]
                    b == unit.result.value[j]
                IN  \/ Score0(a) > Score0(b)
                    \/ Score0(a) = Score0(b) /\ a.posted_date >= b.posted_date

\* an input in ascending order of score, with a missing score in it
C14_Witness ==
    /\ unit.op = "sort" /\ unit.done
    /\ Len(unit.postings) = 3
    /\ IsNone(unit.postings[1].match_score)
    /\ Score0(unit.postings[3]) > 0
    /\ unit.postings[1].posted_date < unit.postings[2].posted_date
    /\ Score0(unit.postings[2]) = 0
    /\ unit.result.value = Reverse(unit.postings)

\* C15: for every key (score with missing as 0, posted_date) the postings
\* with that key appear in the output in the order they have in the input.
C15_SortStable ==
    (unit.op = "sort" /\ unit.done) =>
        \A x \in Range(unit.postings) :
            LET same(y) == Score0(y) = Score0(x) /\ y.posted_date = x.posted_date
            IN  SelectSeq(unit.result.value, same) = SelectSeq(unit.postings, same)

\* two different postings with equal keys (score None and score 0, same
\* date) around a posting that sorts in front of them
C15_Witness ==
    /\ unit.op = "sort" /\ unit.done
    /\ Len(unit.postings) = 3
    /\ unit.postings[1] # unit.postings[3]
    /\ Score0(unit.postings[1]) = Score0(unit.postings[3])
    /\ unit.postings[1].posted_date = unit.postings[3].posted_date
    /\ unit.result.value = << unit.postings[2], unit.postings[1], unit.postings[3] >>
    /\ unit.postings[2] # unit.postings[1]

\* the job the call names exists in the table the call started from
JobExists == ~ IsNone(JobById(unit.jobs0, unit.job_id))
AskedJob == unit.jobs0[Val(JobById(unit.jobs0, unit.job_id))]

\* C16: calculate_job_match_score returns, without raising, a value between
\* 0 and 100 for every profile and every job id, and the same value when it
\* is called again with the same arguments.
C16_ScoreBounds ==
    (unit.op = "score" /\ unit.done) =>
        /\ ~ unit.result.raised
        /\ 0 <= unit.result.value.num
        /\ unit.result.value.num <= 100 * unit.result.value.den
        /\ unit.again = unit.result

\* skill_component: overlap fraction of the required skills, 0 without any
SkillComponent(job, cv) ==
    LET required == LowerSet(job.skills_required)
    IN  IF required = { } THEN Zero
        ELSE Frac(Cardinality(required \cap LowerSet(cv.skills)), Cardinality(required))

\* experience_component: average over the experience entries of the fraction
\* of job-text words found in the entry
ExperienceComponent(job, cv) ==
    IF Len(cv.experience) = 0 \/ job.keywords = { } THEN Zero
    ELSE Frac(OverlapSum(cv.experience, job.keywords, 1),
              Cardinality(job.keywords) * Len(cv.experience))

\* C17: for an existing job calculate_job_match_score returns
\* (skill_component * 0.6 + experience_component * 0.4) * 100.
C17_ScoreFormula ==
    (unit.op = "score" /\ unit.done /\ JobExists) =>
        unit.result = Returned(final_score(SkillComponent(AskedJob, unit.cv_content),
                                           ExperienceComponent(AskedJob, unit.cv_content)))

ValidToggle ==
    /\ LowerArg(unit.service_name) \in valid_services
    /\ LowerArg(unit.enabled) \in { "true", "false" }
    /\ ~ IsNone(unit.env)

RemoveAt(seq, i) == SubSeq(seq, 1, i - 1) \o SubSeq(seq, i + 1, Len(seq))

\* C22: an accepted toggle_service call returns True and leaves .env with the
\* line ENABLE_<S>=<True|False>, every other line as it was and where it was,
\* and a second identical call leaves the same file; any other call returns
\* False and leaves the file (or its absence) as it was.
C22_ToggleEffect ==
    (unit.op = "toggle" /\ unit.done) =>
        IF ValidToggle
        THEN LET before == readlines(Val(unit.env))
                 after == readlines(Val(unit.env_after))
                 target == << Setting(EnvVar(unit.service_name), TitleArg(unit.enabled)), NL >>
             IN  /\ unit.result
                 /\ \E i \in 1..Len(after) :
                       /\ after[i] = target
                       /\ \/ RemoveAt(after, i) = before
                          \/ /\ Len(before) = Len(after)
                             /\ RemoveAt(after, i) = RemoveAt(before, i)
                 /\ unit.env_again = unit.env_after
        ELSE /\ ~ unit.result
             /\ unit.env_after = unit.env

RECURSIVE SumCounts(_, _)
SumCounts(counts, keys) ==
    IF keys = { } THEN 0
    ELSE LET k == CHOOSE k \in keys : TRUE
         IN  counts[k] + SumCounts(counts, keys \ { k })

\* C30: get_application_analytics returns a response_rate between 0 and 100
\* and status_breakdown counts that add up to total_applications.
C30_AnalyticsBounds ==
    (unit.op = "analytics" /\ unit.done) =>
        LET r == unit.result
        IN  /\ r.response_rate.num >= 0
            /\ r.response_rate.num <= 100 * r.response_rate.den
            /\ SumCounts(r.status_breakdown, DOMAIN r.status_breakdown)
                 = r.total_applications

\* C24: for a registered user and any application history,
\* get_application_recommendations returns a list of at most `limit` entries,
\* in descending order of match score, each with a score above 50, none of
\* them for a job the user has applied to.
C24_Recommendations ==
    (unit.op = "recommend" /\ unit.done /\ unit.user_id \in ApiUsers) =>
        /\ ~ unit.result.raised
        /\ LET recs == unit.result.value
           IN  /\ Len(recs) <= unit.limit
               /\ \A k \in 1..(Len(recs) - 1) :
                     ~ FracGt(recs[k + 1].match_score, recs[k].match_score)
               /\ \A k \in 1..Len(recs) :
                     /\ FracGt(recs[k].match_score, Frac(50, 1))
                     /\ ~ \E i \in 1..Len(applications) :
                            /\ applications[i].user_id = unit.user_id
                            /\ applications[i].job_id = Some(recs[k].job)

\* the same with the name Job bound in job_search.py, where the scoring runs
C24_WithJobBound ==
    (unit.op = "recommend" /\ unit.globals = GlobalsWithJob) => C24_Recommendations

\* C28: the match_score that analyze_application_strength reports for an
\* application of the calling user is the score of that application's CV
\* against its job, whatever was scored against the job before.
C28_ScoreOfAskingCv ==
    (/\ unit.op = "analyze" /\ unit.done
     /\ \E i \in 1..Len(applications) :
          /\ applications[i].id = unit.application_id
          /\ applications[i].user_id = unit.user_id) =>
        LET application == CHOOSE a \in Range(applications) :
                               a.id = unit.application_id /\ a.user_id = unit.user_id
            cv == Val(Related(cvs, application.cv_id))
            own == calculate_job_match_score(jobs, Val(application.job_id),
                                             cv.content, GlobalsWithJob).result.value
        IN  /\ ~ unit.result.raised
            /\ unit.result.value = own

\* the same for the calls that return
C28_WhenReturned ==
    (unit.op = "analyze" /\ unit.done /\ unit.result.raised) \/ C28_ScoreOfAskingCv

\* C26: every stored application refers to a job that exists and to a CV
\* that exists and belongs to the application's user.
C26_ReferentialIntegrity ==
    \A i \in 1..Len(applications) :
        LET job == Related(jobs, applications[i].job_id)
            cv == Related(cvs, applications[i].cv_id)
        IN  /\ ~ IsNone(job)
            /\ ~ IsNone(cv)
            /\ Val(cv).owner_id = applications[i].user_id

\* C27: the cover letter the cover-letter endpoint stores on an application
\* is written from that application's own job and CV.
C27_CoverLetterConsistency ==
    (resp.op = "generate_cover_letter" /\ resp.status = 200) =>
        \A i \in 1..Len(applications) :
            applications[i].id = resp.id =>
                applications[i].cover_letter =
                    Some([ job |-> Val(applications[i].job_id),
                           cv |-> Val(applications[i].cv_id) ])

\* C29: every CV an upload created has an original_pdf_path whose file
\* exists; a failed upload adds no CV and leaves no file at its path.
C29_UploadConsistency ==
    /\ \A i \in 1..Len(cvs) :
          (cvs[i].is_base_cv /\ ~ IsNone(cvs[i].original_pdf_path)) =>
              Val(cvs[i].original_pdf_path) \in files
    /\ (resp.op = "upload_cv" /\ resp.status = 500) =>
          << resp.user, "a.pdf" >> \notin files

\* the endpoints that address one application, and one CV, by its id
ApplicationOps ==
    { "get_application", "update_application", "delete_application",
      "generate_cover_letter" }
CvOps == { "get_cv", "update_cv", "adapt_cv", "delete_cv" }

\* the addressed record belongs to the caller, in the tables before the call
OwnedByCaller ==
    IF resp'.op \in ApplicationOps
    THEN \E i \in 1..Len(applications) :
            applications[i].id = resp'.id /\ applications[i].user_id = resp'.user
    ELSE \E i \in 1..Len(cvs) :
            cvs[i].id = resp'.id /\ cvs[i].owner_id = resp'.user

C25_Step ==
    (resp'.seq = resp.seq + 1 /\ resp'.op \in ApplicationOps \cup CvOps) =>
        /\ resp'.status = 200 => OwnedByCaller
        /\ ~ OwnedByCaller =>
              /\ resp'.status = 404
              /\ UNCHANGED << jobs, cvs, applications, files >>
        /\ SelectSeq(applications', LAMBDA a : a.user_id # resp'.user)
             = SelectSeq(applications, LAMBDA a : a.user_id # resp'.user)
        /\ SelectSeq(cvs', LAMBDA c : c.owner_id # resp'.user)
             = SelectSeq(cvs, LAMBDA c : c.owner_id # resp'.user)

\* C25: a get, update, delete or cover-letter call on an application id, and
\* a get, update, adapt or delete call on a CV id, succeeds only when the
\* record belongs to the calling user; otherwise it answers 404 and changes
\* no stored record; no such call changes a record of another user.
C25_OwnershipIsolation == [][C25_Step]_vars

\* a call on an application of the other user was answered 404
C25_Witness ==
    /\ resp.op \in ApplicationOps
    /\ resp.status = 404
    /\ \E i \in 1..Len(applications) :
          applications[i].id = resp.id /\ applications[i].user_id # resp.user

====
